---- MODULE Spec2Model ----
(***************************************************************************)
(* Parallel machine scheduling by A* search (Code.cpp).                    *)
(*                                                                         *)
(* The module models the value types Maquina, Tarea, Asignacion, Estado    *)
(* and Nodo, the pure functions asignarTarea, calcularCoste,               *)
(* calcularHeuristica2 and generarSucesores, and the search loop of        *)
(* A_estrella as a state machine with one action per outcome of a loop     *)
(* iteration.  The priority queue holds a bag of nodes, written as the     *)
(* sequence of its nodes sorted by std::greater<Nodo> and, among nodes of  *)
(* equal f_cost, by their assignment history.  The C++ standard does not   *)
(* fix which of several nodes of equal f_cost top() returns: an extraction *)
(* takes any one of the first MaxEmpates nodes of minimum f_cost.          *)
(***************************************************************************)
EXTENDS Integers, Sequences, FiniteSets, TLC

VARIABLES
    estado_inicial,  \* the Estado built by main and passed to A_estrella
    cola,            \* 'open': the queued Nodo values, in extraction order
    closed_list,     \* std::map<Estado,int> as a set of [estado, g] entries
    actual,          \* the Nodo last taken from cola ("Nodo actual")
    pc,              \* position in A_estrella: "while", "solucion" (line 235),
                     \* "sin_solucion" (line 267); "llamadas" outside a search
    resultado,       \* the Estado returned by A_estrella
    anterior,        \* the Estado returned by the previous run on the same input
    padre,           \* argument 'estado' of the last direct call of asignarTarea
    llamada,         \* arguments (tarea_id, maquina_id) of that call
    hijo             \* the Estado that call returned

vars == <<estado_inicial, cola, closed_list, actual, pc, resultado, anterior,
          padre, llamada, hijo>>

searchVars == <<estado_inicial, cola, closed_list, actual, pc, resultado, anterior>>
callVars == <<padre, llamada, hijo>>

-----------------------------------------------------------------------------
(* Bounds of the explored inputs.                                          *)

MaxMaquinas == 2
MaxTareas == 3
MaxTiempo == 3
\* how many of the nodes of equal minimum f_cost an extraction chooses among
MaxEmpates == 2

Ninguno == [ninguno |-> TRUE]

-----------------------------------------------------------------------------
(* Value types.                                                            *)

Maquina(id, tiempo_ocupado) == [id |-> id, tiempo_ocupado |-> tiempo_ocupado]

Tarea(id, tiempo) == [id |-> id, tiempo |-> tiempo]

\* {tarea.id, maquina.id} leaves posicion value-initialised
Asignacion(tarea_id, maquina_id) ==
    [tarea_id |-> tarea_id, maquina_id |-> maquina_id, posicion |-> 0]

Estado(M, T, Asignaciones) == [M |-> M, T |-> T, Asignaciones |-> Asignaciones]

Nodo(estado, g_cost, f_cost) == [estado |-> estado, g_cost |-> g_cost, f_cost |-> f_cost]

-----------------------------------------------------------------------------
(* Comparison operators of the value types.                                *)

MaquinaLess(a, b) ==
    \/ a.id < b.id
    \/ a.id = b.id /\ a.tiempo_ocupado < b.tiempo_ocupado

MaquinaEq(a, b) == a.id = b.id /\ a.tiempo_ocupado = b.tiempo_ocupado

TareaLess(a, b) == a.id < b.id

TareaEq(a, b) == a.id = b.id

\* std::vector operator== : same size and element-wise operator==
VecMaquinaEq(v, w) ==
    /\ Len(v) = Len(w)
    /\ \A i \in 1..Len(v) : MaquinaEq(v[i], w[i])

VecTareaEq(v, w) ==
    /\ Len(v) = Len(w)
    /\ \A i \in 1..Len(v) : TareaEq(v[i], w[i])

\* std::vector operator< : std::lexicographical_compare with the element's operator<
VecMaquinaLess(v, w) ==
    \/ \E i \in 1..Len(v) :
          /\ i <= Len(w)
          /\ MaquinaLess(v[i], w[i])
          /\ \A j \in 1..(i-1) : ~MaquinaLess(v[j], w[j]) /\ ~MaquinaLess(w[j], v[j])
    \/ /\ Len(v) < Len(w)
       /\ \A j \in 1..Len(v) : ~MaquinaLess(v[j], w[j]) /\ ~MaquinaLess(w[j], v[j])

VecTareaLess(v, w) ==
    \/ \E i \in 1..Len(v) :
          /\ i <= Len(w)
          /\ TareaLess(v[i], w[i])
          /\ \A j \in 1..(i-1) : ~TareaLess(v[j], w[j]) /\ ~TareaLess(w[j], v[j])
    \/ /\ Len(v) < Len(w)
       /\ \A j \in 1..Len(v) : ~TareaLess(v[j], w[j]) /\ ~TareaLess(w[j], v[j])

\* the history taking part in the ordering of the keys
EstadoLess_historial(a, b) ==
    IF ~VecTareaEq(a.T, b.T) THEN VecTareaLess(a.T, b.T)
    ELSE IF ~VecMaquinaEq(a.M, b.M) THEN VecMaquinaLess(a.M, b.M)
    ELSE Len(a.Asignaciones) > 0 /\ Len(b.Asignaciones) > 0
         /\ a.Asignaciones[1].tarea_id < b.Asignaciones[1].tarea_id

EstadoLess(a, b) ==
    IF ~VecTareaEq(a.T, b.T) THEN VecTareaLess(a.T, b.T)
    ELSE VecMaquinaLess(a.M, b.M)

EstadoEq(a, b) == VecTareaEq(a.T, b.T) /\ VecMaquinaEq(a.M, b.M)

\* key equivalence of std::map<Estado,int>: neither key orders before the other
MismaClave(a, b) == ~EstadoLess(a, b) /\ ~EstadoLess(b, a)

\* the comparison written the wrong way round
NodoGreater_invertido(a, b) == a.f_cost < b.f_cost

\* Nodo::operator>
NodoGreater(a, b) == a.f_cost > b.f_cost

-----------------------------------------------------------------------------
(* Pure functions.                                                         *)

\* std::find_if over a vector by id: index of the first match, 0 for end()
BuscarId(v, id) ==
    IF \E i \in 1..Len(v) : v[i].id = id
    THEN CHOOSE i \in 1..Len(v) :
            /\ v[i].id = id
            /\ \A j \in 1..(i-1) : v[j].id # id
    ELSE 0

\* pop_back in place of erase(it)
Erase_ultimo(v, i) == SubSeq(v, 1, Len(v) - 1)

\* the last element moved into the erased position, then pop_back
Erase_intercambio(v, i) ==
    [k \in 1..(Len(v)-1) |-> IF k = i THEN v[Len(v)] ELSE v[k]]

\* vector::erase of the element at index i
Erase(v, i) == [k \in 1..(Len(v)-1) |-> IF k < i THEN v[k] ELSE v[k+1]]

\* the duration added to the first machine whatever machine was found
asignarTarea_primera(estado, tarea_id, maquina_id) ==
    LET it_tarea == BuscarId(estado.T, tarea_id) IN
    IF it_tarea = 0 THEN estado
    ELSE
      LET tarea == estado.T[it_tarea]
          it_maquina == BuscarId(estado.M, maquina_id) IN
      IF it_maquina = 0 THEN estado
      ELSE
        LET maquina == estado.M[it_maquina] IN
        Estado([estado.M EXCEPT ![1].tiempo_ocupado = @ + tarea.tiempo],
               Erase(estado.T, it_tarea),
               Append(estado.Asignaciones, Asignacion(tarea.id, maquina.id)))

\* = in place of +=
asignarTarea_asigna(estado, tarea_id, maquina_id) ==
    LET it_tarea == BuscarId(estado.T, tarea_id) IN
    IF it_tarea = 0 THEN estado
    ELSE
      LET tarea == estado.T[it_tarea]
          it_maquina == BuscarId(estado.M, maquina_id) IN
      IF it_maquina = 0 THEN estado
      ELSE
        LET maquina == estado.M[it_maquina] IN
        Estado([estado.M EXCEPT ![it_maquina].tiempo_ocupado = tarea.tiempo],
               Erase(estado.T, it_tarea),
               Append(estado.Asignaciones, Asignacion(tarea.id, maquina.id)))

asignarTarea(estado, tarea_id, maquina_id) ==
    LET it_tarea == BuscarId(estado.T, tarea_id) IN
    IF it_tarea = 0 THEN estado
    ELSE
      LET tarea == estado.T[it_tarea]
          it_maquina == BuscarId(estado.M, maquina_id) IN
      IF it_maquina = 0 THEN estado
      ELSE
        LET maquina == estado.M[it_maquina] IN
        Estado([estado.M EXCEPT ![it_maquina].tiempo_ocupado = @ + tarea.tiempo],
               Erase(estado.T, it_tarea),
               Append(estado.Asignaciones, Asignacion(tarea.id, maquina.id)))

RECURSIVE MaxTiempoOcupado(_, _)
MaxTiempoOcupado(M, k) ==
    IF k = 0 THEN 0
    ELSE LET r == MaxTiempoOcupado(M, k-1) IN
         IF M[k].tiempo_ocupado > r THEN M[k].tiempo_ocupado ELSE r

\* max_tiempo overwritten by every machine: the load of the last one
calcularCoste_ultima(estado) ==
    IF Len(estado.M) = 0 THEN 0 ELSE estado.M[Len(estado.M)].tiempo_ocupado

calcularCoste(estado) == MaxTiempoOcupado(estado.M, Len(estado.M))

RECURSIVE SumaTiempos(_, _)
SumaTiempos(T, k) == IF k = 0 THEN 0 ELSE SumaTiempos(T, k-1) + T[k].tiempo

RECURSIVE SumaEspacioLibre(_, _, _)
SumaEspacioLibre(M, tiempo_max, k) ==
    IF k = 0 THEN 0
    ELSE SumaEspacioLibre(M, tiempo_max, k-1) + (tiempo_max - M[k].tiempo_ocupado)

\* Values static_cast<int> may yield for the NaN that the division by
\* M = 0 produces (the conversion is undefined).
IndefinidoInt == {-1, 0, 1}

\* the remaining work and the free space not divided by the machine count
calcularHeuristica2_sin_dividir(estado) ==
    LET suma_t_restantes == SumaTiempos(estado.T, Len(estado.T))
        tiempo_max == MaxTiempoOcupado(estado.M, Len(estado.M))
        suma_espacio_libre == SumaEspacioLibre(estado.M, tiempo_max, Len(estado.M))
        numerador == suma_t_restantes - suma_espacio_libre
    IN  IF numerador < 0 THEN 0 ELSE numerador

\* With M >= 1: heuristica = R/M - S/M as doubles, clamped at 0, then
\* std::round (halves away from zero).  R, S and M are small integers, so
\* the value is the exact rational (R - S)/M, and for a non-negative
\* numerator round((R-S)/M) = floor((2(R-S) + M) / (2M)).
calcularHeuristica2(estado) ==
    LET M == Len(estado.M)
        suma_t_restantes == SumaTiempos(estado.T, Len(estado.T))
        tiempo_max == MaxTiempoOcupado(estado.M, Len(estado.M))
        suma_espacio_libre == SumaEspacioLibre(estado.M, tiempo_max, Len(estado.M))
        numerador == suma_t_restantes - suma_espacio_libre
    IN  IF numerador < 0 THEN 0
        ELSE (2 * numerador + M) \div (2 * M)

\* The int values calcularHeuristica2 can return for a state
Heuristicas(estado) ==
    IF Len(estado.M) = 0 THEN IndefinidoInt ELSE {calcularHeuristica2(estado)}

\* machine ids taken as the 0-based loop index
generarSucesores_indice(estado) ==
    LET nM == Len(estado.M) IN
    [k \in 1..(Len(estado.T) * nM) |->
        asignarTarea(estado,
                     estado.T[((k-1) \div nM) + 1].id,
                     (k-1) % nM)]

generarSucesores(estado) ==
    LET nM == Len(estado.M) IN
    [k \in 1..(Len(estado.T) * nM) |->
        asignarTarea(estado,
                     estado.T[((k-1) \div nM) + 1].id,
                     estado.M[((k-1) % nM) + 1].id)]

-----------------------------------------------------------------------------
(* main: construction of the initial state.                                *)

EstadoDeEntrada(numM, tiempos) ==
    Estado([i \in 1..numM |-> Maquina(i, 0)],
           [i \in 1..Len(tiempos) |-> Tarea(i, tiempos[i])],
           <<>>)

ListasDeTiempos ==
    UNION {[1..n -> 1..MaxTiempo] : n \in 0..MaxTareas}

EscenariosDeReferencia ==
    { EstadoDeEntrada(2, <<5, 5, 3>>),
      EstadoDeEntrada(1, <<4, 3, 2>>),
      EstadoDeEntrada(3, <<6, 6, 6>>) }

Entradas ==
    {EstadoDeEntrada(m, ts) : m \in 0..MaxMaquinas, ts \in ListasDeTiempos}
      \cup EscenariosDeReferencia

-----------------------------------------------------------------------------
(* A_estrella.                                                             *)

NodoVacio == Nodo(Estado(<<>>, <<>>, <<>>), 0, 0)

\* lexicographic order of two assignment histories by (tarea_id, maquina_id)
HistLess(a, b) ==
    \/ \E i \in 1..Len(a) :
          /\ i <= Len(b)
          /\ \/ a[i].tarea_id < b[i].tarea_id
             \/ a[i].tarea_id = b[i].tarea_id /\ a[i].maquina_id < b[i].maquina_id
          /\ \A j \in 1..(i-1) : a[j] = b[j]
    \/ /\ Len(a) < Len(b)
       /\ \A j \in 1..Len(a) : a[j] = b[j]

\* std::greater<Nodo> leaves a and b unordered
Empate(a, b) == ~NodoGreater(a, b) /\ ~NodoGreater(b, a)

\* a stands before b in the queue
Precede(a, b) ==
    \/ NodoGreater(b, a)
    \/ Empate(a, b) /\ HistLess(a.estado.Asignaciones, b.estado.Asignaciones)

\* cola.push(n)
Push(q, n) ==
    LET k == Cardinality({i \in 1..Len(q) : ~Precede(n, q[i])}) IN
    SubSeq(q, 1, k) \o <<n>> \o SubSeq(q, k+1, Len(q))

\* the positions of the nodes cola.top() may return
Top(q) ==
    {i \in 1..Len(q) : i <= MaxEmpates /\ Empate(q[i], q[1])}

\* cola.pop() of the node at position i
Pop(q, i) == [k \in 1..(Len(q)-1) |-> IF k < i THEN q[k] ELSE q[k+1]]

\* closed_list.find(estado): the entries whose key is equivalent to estado
Find(cl, estado) == {e \in cl : MismaClave(e.estado, estado)}

\* closed_list[estado] = g : the key object of an existing entry is kept
Insertar(cl, estado, g) ==
    IF Find(cl, estado) = {} THEN cl \cup {[estado |-> estado, g |-> g]}
    ELSE {IF MismaClave(e.estado, estado) THEN [e EXCEPT !.g = g] ELSE e : e \in cl}

\* f_cost set to h alone
NodoSucesor_sin_g(sucesor) ==
    LET g_sucesor == calcularCoste(sucesor)
        h_sucesor == calcularHeuristica2(sucesor)
    IN  Nodo(sucesor, g_sucesor, h_sucesor)

\* {sucesor, g_sucesor, g_sucesor + h_sucesor}; a state with successors has
\* M >= 1, where calcularHeuristica2 is defined
NodoSucesor(sucesor) ==
    LET g_sucesor == calcularCoste(sucesor)
        h_sucesor == calcularHeuristica2(sucesor)
    IN  Nodo(sucesor, g_sucesor, g_sucesor + h_sucesor)

\* the nodes pushed for the successors of a state, in the order of the loop
\* (each successor is bound as a value before its costs are computed)
NodosSucesores(estado) ==
    LET suc == generarSucesores(estado) IN
    [k \in 1..Len(suc) |-> CHOOSE n \in {NodoSucesor(s) : s \in {suc[k]}} : TRUE]

\* cola.push of nodos[1], ..., nodos[k] in this order (each intermediate
\* queue is bound as a value before the next push reads it)
RECURSIVE PushAll(_, _, _)
PushAll(q, nodos, k) ==
    IF k = 0 THEN q
    ELSE CHOOSE r \in {Push(p, nodos[k]) : p \in {PushAll(q, nodos, k-1)}} : TRUE

\* the test for absence written as a test for presence
Debe_Expandir_invertido(cl, n) ==
    \/ Find(cl, n.estado) # {}
    \/ \E e \in Find(cl, n.estado) : n.g_cost < e.g

\* <= in place of <
Debe_Expandir_menor_igual(cl, n) ==
    \/ Find(cl, n.estado) = {}
    \/ \E e \in Find(cl, n.estado) : n.g_cost <= e.g

Debe_Expandir(cl, n) ==
    \/ Find(cl, n.estado) = {}
    \/ \E e \in Find(cl, n.estado) : n.g_cost < e.g

Init ==
    /\ estado_inicial \in Entradas
    /\ \E h \in Heuristicas(estado_inicial) :
         cola = <<Nodo(estado_inicial, calcularCoste(estado_inicial),
                       calcularCoste(estado_inicial) + h)>>
    /\ closed_list = {}
    /\ actual = NodoVacio
    /\ pc = "while"
    /\ resultado = Ninguno
    /\ anterior = Ninguno
    /\ padre = Ninguno
    /\ llamada = Ninguno
    /\ hijo = Ninguno

\* pop of a node whose pending list is empty: return actual.estado
PopSolucion ==
    /\ pc = "while"
    /\ \E i \in Top(cola) : LET n == cola[i] IN
         /\ Len(n.estado.T) = 0
         /\ actual' = n
         /\ cola' = Pop(cola, i)
         /\ resultado' = n.estado
         /\ pc' = "solucion"
    /\ UNCHANGED <<estado_inicial, closed_list, anterior, callVars>>

\* pop of a node that is recorded in closed_list and expanded
PopExpandir ==
    /\ pc = "while"
    /\ \E i \in Top(cola) : LET n == cola[i] IN
         /\ Len(n.estado.T) # 0
         /\ Debe_Expandir(closed_list, n)
         /\ actual' = n
         /\ closed_list' = Insertar(closed_list, n.estado, n.g_cost)
         /\ \E nodos \in {NodosSucesores(n.estado)} :
              cola' = PushAll(Pop(cola, i), nodos, Len(nodos))
    /\ UNCHANGED <<estado_inicial, pc, resultado, anterior, callVars>>

\* pop of a node whose state is already in closed_list with a g not greater
PopDescartar ==
    /\ pc = "while"
    /\ \E i \in Top(cola) : LET n == cola[i] IN
         /\ Len(n.estado.T) # 0
         /\ ~Debe_Expandir(closed_list, n)
         /\ actual' = n
         /\ cola' = Pop(cola, i)
    /\ UNCHANGED <<estado_inicial, closed_list, pc, resultado, anterior, callVars>>

\* the while loop ends with an empty queue: return estado_inicial
ColaVacia ==
    /\ pc = "while"
    /\ cola = <<>>
    /\ resultado' = estado_inicial
    /\ pc' = "sin_solucion"
    /\ UNCHANGED <<estado_inicial, cola, closed_list, actual, anterior, callVars>>

Next == PopSolucion \/ PopExpandir \/ PopDescartar \/ ColaVacia

Spec == Init /\ [][Next]_vars

\* The loop is sequential code that always takes its next step.
FairSpec == Spec /\ WF_vars(Next)

-----------------------------------------------------------------------------
(* Repeated runs of A_estrella on the same input.                          *)

Repetir ==
    /\ pc \in {"solucion", "sin_solucion"}
    /\ anterior' = resultado
    /\ \E h \in Heuristicas(estado_inicial) :
         cola' = <<Nodo(estado_inicial, calcularCoste(estado_inicial),
                        calcularCoste(estado_inicial) + h)>>
    /\ closed_list' = {}
    /\ actual' = NodoVacio
    /\ pc' = "while"
    /\ resultado' = Ninguno
    /\ UNCHANGED <<estado_inicial, callVars>>

NextRepetido == Next \/ Repetir

SpecRepetido == Init /\ [][NextRepetido]_vars

-----------------------------------------------------------------------------
(* Direct calls of asignarTarea, with ids present in the state or absent.  *)

TareaIds == 0..(MaxTareas + 1)
MaquinaIds == 0..(MaxMaquinas + 1)

Llamada(tarea_id, maquina_id) == [tarea_id |-> tarea_id, maquina_id |-> maquina_id]

InitAsignar ==
    /\ estado_inicial \in Entradas
    /\ cola = <<>>
    /\ closed_list = {}
    /\ actual = NodoVacio
    /\ pc = "llamadas"
    /\ resultado = Ninguno
    /\ anterior = Ninguno
    /\ padre = Ninguno
    /\ llamada = Ninguno
    /\ hijo = estado_inicial

Llamar(t, m) ==
    /\ padre' = hijo
    /\ llamada' = Llamada(t, m)
    /\ hijo' = asignarTarea(hijo, t, m)
    /\ UNCHANGED searchVars

AsignarPendiente ==
    \E t \in TareaIds, m \in MaquinaIds :
        /\ BuscarId(hijo.T, t) # 0
        /\ BuscarId(hijo.M, m) # 0
        /\ Llamar(t, m)

AsignarTareaAusente ==
    \E t \in TareaIds, m \in MaquinaIds :
        /\ BuscarId(hijo.T, t) = 0
        /\ Llamar(t, m)

AsignarMaquinaAusente ==
    \E t \in TareaIds, m \in MaquinaIds :
        /\ BuscarId(hijo.T, t) # 0
        /\ BuscarId(hijo.M, m) = 0
        /\ Llamar(t, m)

NextAsignar == AsignarPendiente \/ AsignarTareaAusente \/ AsignarMaquinaAusente

SpecAsignar == InitAsignar /\ [][NextAsignar]_vars

-----------------------------------------------------------------------------
(* Vocabulary of the properties.                                           *)

NumMaquinas == Len(estado_inicial.M)
NumTareas == Len(estado_inicial.T)

\* duration of the task with the given id in the input
TiempoDe(id) == estado_inicial.T[BuscarId(estado_inicial.T, id)].tiempo

\* every Estado held by the search: queued, key of closed_list, popped, returned
EstadosDeBusqueda ==
    {cola[i].estado : i \in 1..Len(cola)}
      \cup {e.estado : e \in closed_list}
      \cup (IF actual = NodoVacio THEN {} ELSE {actual.estado})
      \cup (IF resultado = Ninguno THEN {} ELSE {resultado})

RECURSIVE SumaDe(_, _)
SumaDe(f, S) ==
    IF S = {} THEN 0
    ELSE LET x == CHOOSE y \in S : TRUE IN f[x] + SumaDe(f, S \ {x})

MaxDe(S) == IF S = {} THEN 0 ELSE CHOOSE v \in S : \A w \in S : w <= v
MinDe(S) == CHOOSE v \in S : \A w \in S : v <= w

\* the complete assignments of the input's tasks to its machines
AsignacionesCompletas == [1..NumTareas -> 1..NumMaquinas]

\* load of machine m and makespan under the complete assignment a
CargaCompleta(a, m) ==
    SumaDe([i \in 1..NumTareas |-> TiempoDe(i)], {i \in 1..NumTareas : a[i] = m})

MakespanCompleto(a) == MaxDe({CargaCompleta(a, m) : m \in 1..NumMaquinas})

MakespanOptimo == MinDe({MakespanCompleto(a) : a \in AsignacionesCompletas})

Retornado == pc \in {"solucion", "sin_solucion"}

EsEntrada(numM, tiempos) == estado_inicial = EstadoDeEntrada(numM, tiempos)

-----------------------------------------------------------------------------
(* C1: with at least one machine, the makespan of the returned state is    *)
(* the least makespan of all complete assignments of the tasks to the      *)
(* machines; M=2,[5,5,3] gives 8, M=1,[4,3,2] gives 9, M=3,[6,6,6] gives 6.*)
C1_MakespanOptimo ==
    (Retornado /\ NumMaquinas >= 1) =>
        /\ calcularCoste(resultado) = MakespanOptimo
        /\ EsEntrada(2, <<5, 5, 3>>) => calcularCoste(resultado) = 8
        /\ EsEntrada(1, <<4, 3, 2>>) => calcularCoste(resultado) = 9
        /\ EsEntrada(3, <<6, 6, 6>>) => calcularCoste(resultado) = 6

C1_Witness ==
    /\ pc = "solucion"
    /\ EsEntrada(2, <<5, 5, 3>>)
    /\ calcularCoste(resultado) = 8
    /\ \E a \in AsignacionesCompletas : MakespanCompleto(a) > 8

-----------------------------------------------------------------------------
(* C2: conservation.  In every state held by the search, every task id of  *)
(* the input occurs exactly once in the pending list T and the history     *)
(* Asignaciones taken together, so Len(T) + Len(Asignaciones) is the       *)
(* number of tasks.                                                        *)
Ocurrencias(s, id) ==
    Cardinality({i \in 1..Len(s.T) : s.T[i].id = id})
      + Cardinality({j \in 1..Len(s.Asignaciones) : s.Asignaciones[j].tarea_id = id})

Conservado(s) ==
    /\ Len(s.T) + Len(s.Asignaciones) = NumTareas
    /\ \A id \in 1..NumTareas : Ocurrencias(s, id) = 1
    /\ \A i \in 1..Len(s.T) : s.T[i].id \in 1..NumTareas
    /\ \A j \in 1..Len(s.Asignaciones) : s.Asignaciones[j].tarea_id \in 1..NumTareas

C2_Conservacion == \A s \in EstadosDeBusqueda : Conservado(s)

C2_Witness ==
    /\ \E i \in 1..Len(cola) :
          Len(cola[i].estado.T) >= 1 /\ Len(cola[i].estado.Asignaciones) >= 2
    /\ \E e \in closed_list : Len(e.estado.Asignaciones) >= 1
    /\ pc = "while"

-----------------------------------------------------------------------------
(* C3: load consistency.  In every state held by the search, the           *)
(* tiempo_ocupado of each machine is the sum of the durations of the tasks *)
(* whose record in Asignaciones names that machine.                        *)
CargaSegunHistorial(s, maquina_id) ==
    SumaDe([j \in 1..Len(s.Asignaciones) |-> TiempoDe(s.Asignaciones[j].tarea_id)],
           {j \in 1..Len(s.Asignaciones) : s.Asignaciones[j].maquina_id = maquina_id})

CargaConsistente(s) ==
    \A i \in 1..Len(s.M) :
        s.M[i].tiempo_ocupado = CargaSegunHistorial(s, s.M[i].id)

C3_CargaConsistente == \A s \in EstadosDeBusqueda : CargaConsistente(s)

C3_Witness ==
    /\ pc = "solucion"
    /\ NumMaquinas >= 2
    /\ \A i \in 1..Len(resultado.M) : resultado.M[i].tiempo_ocupado > 0
    /\ Len(resultado.Asignaciones) >= 3

-----------------------------------------------------------------------------
(* C4: monotonicity of g.  The state returned by one call of asignarTarea  *)
(* has a calcularCoste not below that of the state the call was given.     *)
C4_CosteMonotono ==
    llamada # Ninguno => calcularCoste(hijo) >= calcularCoste(padre)

C4_Witness ==
    /\ llamada # Ninguno
    /\ Len(hijo.Asignaciones) = Len(padre.Asignaciones) + 1
    /\ calcularCoste(padre) > 0
    /\ calcularCoste(hijo) > calcularCoste(padre)

-----------------------------------------------------------------------------
(* C5: lower bounds.  With at least one machine and one task, the makespan *)
(* of the returned state is at least ceil(sum of the durations / M) and at *)
(* least the largest duration.                                             *)
SumaDuraciones == SumaDe([i \in 1..NumTareas |-> TiempoDe(i)], 1..NumTareas)

MaxDuracion == MaxDe({TiempoDe(i) : i \in 1..NumTareas})

Techo(n, d) == (n + d - 1) \div d

C5_CotaInferior ==
    (Retornado /\ NumMaquinas >= 1 /\ NumTareas >= 1) =>
        /\ calcularCoste(resultado) >= Techo(SumaDuraciones, NumMaquinas)
        /\ calcularCoste(resultado) >= MaxDuracion

C5_Witness ==
    /\ pc = "solucion"
    /\ NumMaquinas >= 2
    /\ NumTareas >= 3
    /\ calcularCoste(resultado) > Techo(SumaDuraciones, NumMaquinas)
    /\ calcularCoste(resultado) > MaxDuracion

-----------------------------------------------------------------------------
(* C6: determinism of the optimal value.  A run of A_estrella on an input  *)
(* returns the same makespan as the run before it on the same input,       *)
(* whichever of the nodes of equal minimum f_cost each extraction took;    *)
(* the assignments of the two results may differ.                          *)
C6_MismoMakespan ==
    (Retornado /\ anterior # Ninguno) =>
        calcularCoste(resultado) = calcularCoste(anterior)

C6_Witness ==
    /\ pc = "solucion"
    /\ anterior # Ninguno
    /\ NumTareas >= 3
    /\ resultado.M # anterior.M
    /\ resultado.Asignaciones # anterior.Asignaciones
    /\ calcularCoste(resultado) = calcularCoste(anterior)

-----------------------------------------------------------------------------
(* C7: a call of asignarTarea with a task id absent from the pending list, *)
(* or a machine id absent from the machine list, never returns a state     *)
(* equal to the state it was given.                                        *)
ReferenciaInvalida ==
    /\ llamada # Ninguno
    /\ \/ BuscarId(padre.T, llamada.tarea_id) = 0
       \/ BuscarId(padre.M, llamada.maquina_id) = 0

C7_ReferenciaInvalidaSenalada == ReferenciaInvalida => hijo # padre

-----------------------------------------------------------------------------
(* C8: when the queue empties without a state with empty pending list      *)
(* having been popped, A_estrella does not return the initial state.       *)
C8_BusquedaAgotadaSenalada == pc = "sin_solucion" => resultado # estado_inicial

-----------------------------------------------------------------------------
(* C9: with at least one machine the loop ends by popping and returning a  *)
(* state whose pending list is empty, and the exit with an empty queue is  *)
(* never taken.                                                            *)
C9_TerminaEnSolucion ==
    (NumMaquinas >= 1) =>
        /\ <>(pc = "solucion" /\ Len(resultado.T) = 0 /\ resultado = actual.estado)
        /\ [](pc # "sin_solucion")

C9_Witness ==
    /\ pc = "solucion"
    /\ NumMaquinas >= 1
    /\ NumTareas >= 3
    /\ Len(resultado.T) = 0
    /\ closed_list # {}

-----------------------------------------------------------------------------
(* C10: two states held by the search with the same set of pending task    *)
(* ids and the same load on every machine id are equal under               *)
(* Estado::operator== and have the same key in closed_list, whatever their *)
(* histories; a popped node whose state already has such an entry in       *)
(* closed_list is discarded: closed_list and the rest of the queue stay as *)
(* they are.                                                               *)
IdsPendientes(s) == {s.T[i].id : i \in 1..Len(s.T)}

CargasPorId(s) == {<<s.M[i].id, s.M[i].tiempo_ocupado>> : i \in 1..Len(s.M)}

MismoNodoDeBusqueda(a, b) ==
    IdsPendientes(a) = IdsPendientes(b) /\ CargasPorId(a) = CargasPorId(b)

IdentidadSinHistorial ==
    \A a, b \in EstadosDeBusqueda :
        MismoNodoDeBusqueda(a, b) => EstadoEq(a, b) /\ MismaClave(a, b)

SegundoDescartado ==
    ( /\ pc = "while" /\ pc' = "while" /\ cola' # cola
      /\ \E e \in closed_list : MismoNodoDeBusqueda(e.estado, actual'.estado) )
    => /\ closed_list' = closed_list
       /\ \E i \in 1..Len(cola) : cola[i] = actual' /\ cola' = Pop(cola, i)

C10_IdentidadSinHistorial == []IdentidadSinHistorial /\ [][SegundoDescartado]_vars

C10_Witness ==
    /\ pc = "while"
    /\ actual # NodoVacio
    /\ \E e \in closed_list :
          /\ MismoNodoDeBusqueda(e.estado, actual.estado)
          /\ e.estado.Asignaciones # actual.estado.Asignaciones
    /\ ~\E i \in 1..Len(cola) :
          /\ Len(cola[i].estado.Asignaciones) > Len(actual.estado.Asignaciones)
          /\ \A j \in 1..Len(actual.estado.Asignaciones) :
                cola[i].estado.Asignaciones[j] = actual.estado.Asignaciones[j]

-----------------------------------------------------------------------------
(* C11: effect and frame of a valid transition.  A call of asignarTarea    *)
(* with a pending task t and a machine m of the state returns a state in   *)
(* which t is removed from the pending list, one record (t, m) is appended *)
(* after the unchanged history and the load of m grows by the duration of  *)
(* t; the other loads, the machine ids (exactly 1..M) and the other        *)
(* pending tasks with their durations and order are as in the argument.    *)
LlamadaValida ==
    /\ llamada # Ninguno
    /\ BuscarId(padre.T, llamada.tarea_id) # 0
    /\ BuscarId(padre.M, llamada.maquina_id) # 0

TareaRetirada(s, r, t) ==
    /\ Len(r.T) = Len(s.T) - 1
    /\ \E i \in 1..Len(s.T) :
          /\ s.T[i].id = t
          /\ \A k \in 1..Len(r.T) : r.T[k] = IF k < i THEN s.T[k] ELSE s.T[k+1]
    /\ \A k \in 1..Len(r.T) : r.T[k].id # t

RegistroAnadido(s, r, t, m) ==
    /\ Len(r.Asignaciones) = Len(s.Asignaciones) + 1
    /\ \A j \in 1..Len(s.Asignaciones) : r.Asignaciones[j] = s.Asignaciones[j]
    /\ r.Asignaciones[Len(r.Asignaciones)].tarea_id = t
    /\ r.Asignaciones[Len(r.Asignaciones)].maquina_id = m

CargaAumentada(s, r, t, m) ==
    /\ Len(r.M) = Len(s.M)
    /\ Len(r.M) = NumMaquinas
    /\ \A i \in 1..Len(r.M) :
          /\ r.M[i].id = i
          /\ s.M[i].id = i
          /\ r.M[i].tiempo_ocupado =
                IF i = m THEN s.M[i].tiempo_ocupado + TiempoDe(t)
                ELSE s.M[i].tiempo_ocupado

C11_EfectoYMarco ==
    LlamadaValida =>
        /\ TareaRetirada(padre, hijo, llamada.tarea_id)
        /\ RegistroAnadido(padre, hijo, llamada.tarea_id, llamada.maquina_id)
        /\ CargaAumentada(padre, hijo, llamada.tarea_id, llamada.maquina_id)

C11_Witness ==
    /\ LlamadaValida
    /\ Len(padre.Asignaciones) >= 1
    /\ Len(hijo.T) >= 1
    /\ llamada.tarea_id = 2
    /\ llamada.maquina_id = 2
    /\ Len(padre.M) = 2
    /\ padre.M[2].tiempo_ocupado > 0
    /\ hijo.M[2].tiempo_ocupado > padre.M[2].tiempo_ocupado

-----------------------------------------------------------------------------
(* C12: successor generation.  For a state s reached by asignarTarea       *)
(* calls, generarSucesores(s) has |pending(s)| x |machines(s)| states,     *)
(* exactly one for each pair of a pending task and a machine; each has one *)
(* pending task fewer and one history record more than s, so none equals   *)
(* s and no call inside it named an absent task or machine.                *)
EsSucesorPor(s, r, t, m) ==
    /\ Len(r.Asignaciones) = Len(s.Asignaciones) + 1
    /\ r.Asignaciones[Len(r.Asignaciones)].tarea_id = t
    /\ r.Asignaciones[Len(r.Asignaciones)].maquina_id = m

SucesoresExactos(s) ==
    LET suc == generarSucesores(s) IN
    /\ Len(suc) = Len(s.T) * Len(s.M)
    /\ \A i \in 1..Len(s.T), j \in 1..Len(s.M) :
          Cardinality({k \in 1..Len(suc) :
                         EsSucesorPor(s, suc[k], s.T[i].id, s.M[j].id)}) = 1
    /\ \A k \in 1..Len(suc) :
          /\ Len(suc[k].T) = Len(s.T) - 1
          /\ Len(suc[k].Asignaciones) = Len(s.Asignaciones) + 1
          /\ suc[k] # s
          /\ ~EstadoEq(suc[k], s)

C12_SucesoresExactos == SucesoresExactos(hijo)

C12_Witness ==
    /\ llamada # Ninguno
    /\ Len(hijo.Asignaciones) >= 1
    /\ Len(hijo.T) = 2
    /\ Len(hijo.M) = 2
    /\ Len(generarSucesores(hijo)) = 4

-----------------------------------------------------------------------------
(* C13: dominance policy.  A popped node with pending tasks is expanded if *)
(* and only if, when it is popped, closed_list has no entry for its state  *)
(* or records for it a g strictly greater than the node's g_cost.  When it *)
(* is expanded, the entry for its state is set to the node's g_cost and    *)
(* its successors are pushed; when it is discarded, closed_list is         *)
(* unchanged and the queue only loses the node.                            *)
PopNoFinal == pc = "while" /\ pc' = "while" /\ cola' # cola

NoDominado(cl, n) ==
    \A e \in cl : EstadoEq(e.estado, n.estado) => e.g > n.g_cost

EnCola(q, n) == \E i \in 1..Len(q) : q[i] = n

Expandido(n) ==
    LET suc == generarSucesores(n.estado) IN
    /\ \E e \in closed_list' : EstadoEq(e.estado, n.estado) /\ e.g = n.g_cost
    /\ \A e \in closed_list' :
          EstadoEq(e.estado, n.estado) \/ e \in closed_list
    /\ \A e \in closed_list :
          EstadoEq(e.estado, n.estado) \/ e \in closed_list'
    /\ closed_list' # closed_list
    /\ Len(cola') = Len(cola) - 1 + Len(suc)
    /\ \A k \in 1..Len(suc) : \E i \in 1..Len(cola') : cola'[i].estado = suc[k]
    /\ \A i \in 1..Len(cola) : cola[i] = n \/ EnCola(cola', cola[i])

Descartado(n) ==
    /\ closed_list' = closed_list
    /\ \E i \in 1..Len(cola) : cola[i] = n /\ cola' = Pop(cola, i)

PoliticaDeDominancia ==
    PopNoFinal =>
        /\ EnCola(cola, actual')
        /\ IF NoDominado(closed_list, actual') THEN Expandido(actual')
           ELSE Descartado(actual') /\ ~Expandido(actual')

C13_PoliticaDeDominancia == [][PoliticaDeDominancia]_vars

C13_Witness ==
    /\ pc = "while"
    /\ Cardinality(closed_list) >= 3
    /\ \E e \in closed_list :
          /\ EstadoEq(e.estado, actual.estado)
          /\ e.estado # actual.estado
          /\ e.g = actual.g_cost
    /\ Len(cola) >= 2

-----------------------------------------------------------------------------
(* C14: goal test before dominance.  The state A_estrella returns always   *)
(* has an empty pending list and a history of exactly N records, and no    *)
(* state with an empty pending list is a key of closed_list.               *)
C14_RetornoEsMeta ==
    /\ Retornado =>
          /\ Len(resultado.T) = 0
          /\ Len(resultado.Asignaciones) = NumTareas
    /\ \A e \in closed_list : Len(e.estado.T) # 0

\* the same statement for the return of a popped node alone (line 235)
C14_RetornoDeSolucionEsMeta ==
    /\ pc = "solucion" =>
          /\ Len(resultado.T) = 0
          /\ Len(resultado.Asignaciones) = NumTareas
          /\ resultado = actual.estado
    /\ \A e \in closed_list : Len(e.estado.T) # 0

-----------------------------------------------------------------------------
(* C15: frontier ordering.  Every queued node has g_cost =                 *)
(* calcularCoste(estado) and f_cost = g_cost + calcularHeuristica2(estado),*)
(* and every extraction removes a node whose f_cost is not above the       *)
(* f_cost of any node in the queue at that moment.                         *)
CostesDelNodo(n) ==
    /\ n.g_cost = calcularCoste(n.estado)
    /\ (n.f_cost - n.g_cost) \in Heuristicas(n.estado)

NodosConCostes == \A i \in 1..Len(cola) : CostesDelNodo(cola[i])

ExtraeMinimo ==
    cola' # cola =>
        /\ EnCola(cola, actual')
        /\ \A i \in 1..Len(cola) : actual'.f_cost <= cola[i].f_cost

C15_OrdenDeLaFrontera == []NodosConCostes /\ [][ExtraeMinimo]_vars

C15_Witness ==
    /\ pc = "while"
    /\ actual # NodoVacio
    /\ \E i, j \in 1..Len(cola) :
          /\ cola[i].f_cost > actual.f_cost
          /\ cola[j].f_cost = actual.f_cost
          /\ cola[j].f_cost > cola[j].g_cost
          /\ cola[j].g_cost > 0

-----------------------------------------------------------------------------
(* C16: admissibility.  For every state reached by asignarTarea calls with *)
(* M >= 1, calcularCoste + calcularHeuristica2 is at most the least        *)
(* makespan of the complete assignments that extend the state, and         *)
(* calcularHeuristica2 is 0 when the pending list is empty.                *)
CargaExtendida(s, a, i) ==
    s.M[i].tiempo_ocupado
      + SumaDe([k \in 1..Len(s.T) |-> s.T[k].tiempo], {k \in 1..Len(s.T) : a[k] = i})

MakespanExtendido(s, a) == MaxDe({CargaExtendida(s, a, i) : i \in 1..Len(s.M)})

MejorExtension(s) ==
    MinDe({MakespanExtendido(s, a) : a \in [1..Len(s.T) -> 1..Len(s.M)]})

C16_HeuristicaAdmisible ==
    Len(hijo.M) >= 1 =>
        /\ calcularCoste(hijo) + calcularHeuristica2(hijo) <= MejorExtension(hijo)
        /\ Len(hijo.T) = 0 => calcularHeuristica2(hijo) = 0

C16_Witness ==
    /\ llamada # Ninguno
    /\ Len(hijo.M) = 2
    /\ Len(hijo.T) >= 1
    /\ Len(hijo.Asignaciones) >= 1
    /\ calcularHeuristica2(hijo) >= 1
    /\ calcularCoste(hijo) + calcularHeuristica2(hijo) = MejorExtension(hijo)
    /\ 2 * (SumaTiempos(hijo.T, Len(hijo.T))
             - SumaEspacioLibre(hijo.M, calcularCoste(hijo), 2)) % 4 = 2

-----------------------------------------------------------------------------
(* C17: each state is expanded at most once.  Nodes with equal states      *)
(* carry equal g_cost; a node is expanded only when closed_list has no     *)
(* entry for its state, and an entry of closed_list, once written, stays   *)
(* as it is.                                                               *)
MismoEstadoMismoG ==
    /\ \A i, j \in 1..Len(cola) :
          EstadoEq(cola[i].estado, cola[j].estado) => cola[i].g_cost = cola[j].g_cost
    /\ \A i \in 1..Len(cola) : \A e \in closed_list :
          EstadoEq(cola[i].estado, e.estado) => cola[i].g_cost = e.g

PopConExpansion ==
    PopNoFinal /\ (Len(cola') >= Len(cola) \/ closed_list' # closed_list)

UnaSolaExpansion ==
    /\ closed_list \subseteq closed_list'
    /\ PopConExpansion =>
          \A e \in closed_list : ~EstadoEq(e.estado, actual'.estado)

C17_UnaSolaExpansion == []MismoEstadoMismoG /\ [][UnaSolaExpansion]_vars

C17_Witness ==
    /\ pc = "while"
    /\ \E e \in closed_list :
          /\ EstadoEq(e.estado, actual.estado)
          /\ e.estado # actual.estado
    /\ \E i \in 1..Len(cola) :
          /\ cola[i].estado # actual.estado
          /\ EstadoEq(cola[i].estado, actual.estado)

-----------------------------------------------------------------------------
(* C18: the f_cost of the extracted nodes never decreases along a run, and *)
(* every node pushed by an expansion has an f_cost not below that of the   *)
(* expanded node.                                                          *)
FCrecienteEnExtraccion ==
    (cola' # cola /\ actual # NodoVacio) => actual'.f_cost >= actual.f_cost

FCrecienteEnSucesores ==
    PopNoFinal =>
        \A i \in 1..Len(cola') :
            EnCola(cola, cola'[i]) \/ cola'[i].f_cost >= actual'.f_cost

C18_FNoDecreciente == [][FCrecienteEnExtraccion /\ FCrecienteEnSucesores]_vars

C18_Witness ==
    /\ pc = "solucion"
    /\ Cardinality(closed_list) >= 2
    /\ \E e \in closed_list : actual.f_cost > e.g /\ e.g > 0
    /\ actual.f_cost > calcularCoste(estado_inicial) + calcularHeuristica2(estado_inicial)

-----------------------------------------------------------------------------
(* C19: in every state held by the search the pending list is a            *)
(* subsequence of the input task list in its order (ids strictly           *)
(* ascending), so two pending lists are equal as vectors exactly when      *)
(* their id sets are equal, and neither orders before the other then.      *)
PendientesEnOrden(s) ==
    /\ \A i \in 1..Len(s.T) :
          /\ s.T[i].id \in 1..NumTareas
          /\ s.T[i] = estado_inicial.T[s.T[i].id]
    /\ \A i, j \in 1..Len(s.T) : i < j => s.T[i].id < s.T[j].id

ComparacionComoConjuntos(a, b) ==
    /\ VecTareaEq(a.T, b.T) <=> IdsPendientes(a) = IdsPendientes(b)
    /\ IdsPendientes(a) = IdsPendientes(b) =>
          ~VecTareaLess(a.T, b.T) /\ ~VecTareaLess(b.T, a.T)

C19_PendientesEnOrden ==
    /\ \A s \in EstadosDeBusqueda : PendientesEnOrden(s)
    /\ \A a, b \in EstadosDeBusqueda : ComparacionComoConjuntos(a, b)

C19_Witness ==
    /\ pc = "while"
    /\ \E i \in 1..Len(cola) :
          /\ Len(cola[i].estado.T) = 2
          /\ cola[i].estado.T[1].id = 1
          /\ cola[i].estado.T[2].id = 3
    /\ \E a, b \in EstadosDeBusqueda :
          /\ a.Asignaciones # b.Asignaciones
          /\ Len(a.T) >= 1
          /\ IdsPendientes(a) = IdsPendientes(b)

====
